---- MODULE Spec2Model ----
(***************************************************************************)
(* TF-IDF similarity ranking of main.cpp: removePunctuation,               *)
(* getUniqueWords, computeTF, computeIDF, computeTFIDF and                 *)
(* getMostSimilarDocument, with main as the driver.                        *)
(*                                                                         *)
(* Texts are sequences of characters (one-character strings; "NUL" is the  *)
(* terminating '\0' of the punctuation array).  A std::map is a function   *)
(* whose DOMAIN is its key set.  A double is a pair <<n, d>>: the rational *)
(* n/d in lowest terms when d > 0, NaN = <<0,0>>, +inf = <<1,0>>,          *)
(* -inf = <<-1,0>>.  Arithmetic on the pairs is exact; log is taken from   *)
(* a table of natural logarithms in thousandths.  Array positions are      *)
(* 1-based here, so the C++ index i is position i+1.                       *)
(***************************************************************************)
EXTENDS Integers, Sequences, FiniteSets, TLC

VARIABLES
    input,          \* the text handed to removePunctuation / getUniqueWords
    normalized,     \* removePunctuation(input)
    renormalized,   \* removePunctuation(removePunctuation(input))
    mString,        \* getUniqueWords(input)
    Docs,           \* main: the document array
    refWords,       \* main: getUniqueWords(Docs[0])
    tf,             \* main: computeTF(...)
    nOcc,           \* computeIDF: the divisor nOcc of each reference word
    idf,            \* main: computeIDF(...)
    tfidf,          \* main: computeTFIDF(...)
    out,            \* what main writes to cout
    pc              \* position of the driver

vars == <<input, normalized, renormalized, mString, Docs, refWords, tf, nOcc,
          idf, tfidf, out, pc>>

\* ------------------------------------------------------------------ bounds
MaxTextLen == 4     \* longest text of SpecText
MaxWords == 2       \* most words of a generated document
MaxDocs == 3        \* most documents of a generated corpus / table
MaxCorpusWords == 5 \* most words of a generated corpus, over all its documents

\* -------------------------------------------------------------- characters
UpperChars == <<"A","B","C","D","E","F","G","H","I","J","K","L","M",
                "N","O","P","Q","R","S","T","U","V","W","X","Y","Z">>
LowerChars == <<"a","b","c","d","e","f","g","h","i","j","k","l","m",
                "n","o","p","q","r","s","t","u","v","w","x","y","z">>

\* upper-case letter -> lower-case letter
LowerOf == [c \in {UpperChars[i] : i \in 1..26} |->
               LowerChars[CHOOSE i \in 1..26 : UpperChars[i] = c]]
\* lower-case letter -> upper-case letter
UpperOf == [c \in {LowerChars[i] : i \in 1..26} |->
               UpperChars[CHOOSE i \in 1..26 : LowerChars[i] = c]]

\* a case bug: swaps the case instead of lowering it
ToggleCase(c) ==
    IF c \in DOMAIN LowerOf THEN LowerOf[c]
    ELSE IF c \in DOMAIN UpperOf THEN UpperOf[c]
    ELSE c

\* ::tolower
ToLower(c) == IF c \in DOMAIN LowerOf THEN LowerOf[c] ELSE c

\* char punctuation[] = ".,;:!?\"\n"; sizeof counts the terminating '\0'
punctuation == <<".", ",", ";", ":", "!", "?", "\"", "\n", "NUL">>

\* std::replace(input.begin(), input.end(), old, new)
Replace(s, old, new) ==
    [i \in 1..Len(s) |-> LET c == s[i] IN IF c = old THEN new ELSE c]

RECURSIVE ReplaceFrom(_, _)
\* for (i = 0; i < sizeof(punctuation); i++) replace(..., punctuation[i], ' ')
ReplaceFrom(s, i) ==
    IF i > Len(punctuation) THEN s
    ELSE ReplaceFrom(Replace(s, punctuation[i], " "), i + 1)

removePunctuation(text) ==
    ReplaceFrom([i \in 1..Len(text) |-> ToLower(text[i])], 1)

\* ------------------------------------------------------------------- maps
EmptyMap == << >>

\* m[k] of a std::map read as a value: 0 when the key is absent
Lookup(m, k) == IF k \in DOMAIN m THEN m[k] ELSE 0

MapSet(m, k, v) == [x \in DOMAIN m \cup {k} |-> IF x = k THEN v ELSE m[x]]

\* ---------------------------------------------------------- getUniqueWords
RECURSIVE DelimPos(_, _)
\* getline(sentence, word, ' '): the position of the first ' ' of s from
\* position i on, or Len(s)+1 when there is none
DelimPos(s, i) ==
    IF i > Len(s) THEN i
    ELSE IF s[i] = " " THEN i
    ELSE DelimPos(s, i + 1)

\* a counting bug: a repeated word is set to 1 again
CountWordReset(m, word) == MapSet(m, word, 1)

\* if (!mString[word]) mString[word] = 1; else mString[word]++;
CountWord(m, word) ==
    IF Lookup(m, word) = 0 THEN MapSet(m, word, 1)
    ELSE MapSet(m, word, m[word] + 1)

RECURSIVE ReadWords(_, _)
\* while (getline(sentence, word, ' ')) if (word != "") ...
\* getline fails exactly when nothing is left in the stream
ReadWords(sentence, m) ==
    IF sentence = << >> THEN m
    ELSE LET d == DelimPos(sentence, 1)
             word == SubSeq(sentence, 1, d - 1)
             rest == SubSeq(sentence, d + 1, Len(sentence))
         IN  ReadWords(rest, IF word # << >> THEN CountWord(m, word) ELSE m)

getUniqueWords(text) == ReadWords(removePunctuation(text), EmptyMap)

\* ---------------------------------------------------------------- doubles
NaN == <<0, 0>>
PosInf == <<1, 0>>
NegInf == <<-1, 0>>
Zero == <<0, 1>>

Abs(n) == IF n < 0 THEN -n ELSE n
Sgn(n) == IF n < 0 THEN -1 ELSE IF n > 0 THEN 1 ELSE 0

RECURSIVE GCD(_, _)
GCD(a, b) == IF b = 0 THEN a ELSE GCD(b, a % b)

\* the value n/d, d >= 0, in lowest terms (d = 0: NaN or an infinity)
Norm(n, d) ==
    IF d = 0 THEN <<Sgn(n), 0>>
    ELSE LET g == GCD(Abs(n), d) IN <<Sgn(n) * (Abs(n) \div g), d \div g>>

\* int -> double
FromInt(n) == <<n, 1>>

IsNaN(x) == x = NaN
IsFinite(x) == x[2] > 0

\* !x of a double: true for +0.0 only (NaN is not zero)
IsZero(x) == x = Zero

\* x / y
Div(x, y) ==
    IF IsNaN(x) \/ IsNaN(y) THEN NaN
    ELSE IF ~IsFinite(x) THEN (IF ~IsFinite(y) THEN NaN
                               ELSE <<x[1] * (IF y[1] < 0 THEN -1 ELSE 1), 0>>)
    ELSE IF ~IsFinite(y) THEN Zero
    ELSE IF y[1] = 0 THEN <<Sgn(x[1]), 0>>
    ELSE Norm(x[1] * y[2] * Sgn(y[1]), x[2] * Abs(y[1]))

\* x * y
Mul(x, y) ==
    IF IsFinite(x) /\ IsFinite(y) THEN Norm(x[1] * y[1], x[2] * y[2])
    ELSE <<Sgn(x[1]) * Sgn(y[1]), 0>>

\* x + y
Add(x, y) ==
    IF IsNaN(x) \/ IsNaN(y) THEN NaN
    ELSE IF IsFinite(x) /\ IsFinite(y) THEN Norm(x[1] * y[2] + y[1] * x[2], x[2] * y[2])
    ELSE IF IsFinite(x) THEN y
    ELSE IF IsFinite(y) THEN x
    ELSE IF x = y THEN x ELSE NaN

\* x >= y: false when either is NaN
Geq(x, y) ==
    IF IsNaN(x) \/ IsNaN(y) THEN FALSE
    ELSE IF IsFinite(x) /\ IsFinite(y) THEN x[1] * y[2] >= y[1] * x[2]
    ELSE IF IsFinite(x) THEN y = NegInf
    ELSE IF IsFinite(y) THEN x = PosInf
    ELSE x[1] >= y[1]

\* natural logarithms of 1..10 in units of 1/LnScale
LnScale == 1000
LnTable == <<0, 693, 1099, 1386, 1609, 1792, 1946, 2079, 2198, 2302>>

\* a smoothing bug: log(1 + x)
LogPlusOne(x) ==
    IF IsFinite(x) /\ x[1] > 0
    THEN Norm(LnTable[x[1] + x[2]] - LnTable[x[2]], LnScale)
    ELSE x

\* log(x) of <cmath>
Log(x) ==
    IF IsNaN(x) THEN NaN
    ELSE IF x = PosInf THEN PosInf
    ELSE IF x[1] < 0 THEN NaN
    ELSE IF x[1] = 0 THEN NegInf
    ELSE Norm(LnTable[x[1]] - LnTable[x[2]], LnScale)

\* the sum of f over the keys, in any order (the arithmetic is exact)
RECURSIVE SumOver(_, _)
SumOver(keys, f) ==
    IF keys = {} THEN 0
    ELSE LET k == CHOOSE x \in keys : TRUE IN f[k] + SumOver(keys \ {k}, f)

\* --------------------------------------------------------------- computeTF
\* a total bug: counts the distinct words instead of summing the counts
TotalWordsDistinct(wordsD) == Cardinality(DOMAIN wordsD)

\* nWords: for (it = wordsD.begin(); ...) nWords += it->second
TotalWords(wordsD) == SumOver(DOMAIN wordsD, wordsD)

\* one document's currentCounts
TFOfDoc(rWords, doc) ==
    LET wordsD == getUniqueWords(doc)
        nWords == TotalWords(wordsD)
    IN  [rWord \in DOMAIN rWords |->
            Div(FromInt(Lookup(wordsD, rWord)), FromInt(nWords))]

computeTF(rWords, docs) == [i \in 1..Len(docs) |-> TFOfDoc(rWords, docs[i])]

\* -------------------------------------------------------------- computeIDF
RECURSIVE WordsOf(_, _)
\* wordsD = getUniqueWords(Docs[i]) of every document from position i on
\* (the same map each time the loop body builds it)
WordsOf(docs, i) ==
    IF i > Len(docs) THEN << >>
    ELSE <<getUniqueWords(docs[i])>> \o WordsOf(docs, i + 1)

\* a loop bug: the count starts at the second document
DocFreqSkipFirst(rWord, wordsD) ==
    Cardinality({i \in 2..Len(wordsD) : Lookup(wordsD[i], rWord) # 0})

\* nOcc: the number of documents whose wordsD[rWord] is non-zero
DocFreq(rWord, wordsD) ==
    Cardinality({i \in 1..Len(wordsD) : Lookup(wordsD[i], rWord) # 0})

\* a smoothing bug: log(nDocs / (1 + nOcc))
IDFOfSmoothed(n, occ) == Log(Div(FromInt(n), FromInt(occ + 1)))

\* log(nDocs/nOcc), nOcc a double
IDFOf(n, occ) == Log(Div(FromInt(n), FromInt(occ)))

\* the loop over the reference words: nOcc and counts[rWord] of each
IDFLoop(rWords, docs) ==
    LET wordsD == WordsOf(docs, 1)
    IN  [rWord \in DOMAIN rWords |->
            LET occ == DocFreq(rWord, wordsD)
            IN  [nOcc |-> occ, count |-> IDFOf(Len(docs), occ)]]

computeIDF(rWords, docs) ==
    LET loop == IDFLoop(rWords, docs) IN [rWord \in DOMAIN rWords |-> loop[rWord].count]

\* ------------------------------------------------------------ computeTFIDF
\* m[k] of a std::map<string,double>: 0.0 when the key is absent
LookupD(m, k) == IF k \in DOMAIN m THEN m[k] ELSE Zero

\* if (!tf || !idf) 0 else tf * idf
Cell(t, d) == IF IsZero(t) \/ IsZero(d) THEN Zero ELSE Mul(t, d)

computeTFIDF(rWords, tfs, idfs) ==
    [i \in 1..Len(tfs) |->
        [rWord \in DOMAIN rWords |-> Cell(LookupD(tfs[i], rWord), LookupD(idfs, rWord))]]

\* -------------------------------------------------- getMostSimilarDocument
RECURSIVE SumCells(_, _)
\* sum: if (tfidf[i][w]) sum += tfidf[i][w], over the reference words
SumCells(keys, row) ==
    IF keys = {} THEN Zero
    ELSE LET k == CHOOSE x \in keys : TRUE
             rest == SumCells(keys \ {k}, row)
         IN  IF IsZero(LookupD(row, k)) THEN rest ELSE Add(LookupD(row, k), rest)

\* an initialisation bug: maxId starts at the reference document's id
RankInitFirst == [maxSum |-> Zero, maxId |-> 1]

\* int maxId = 0; double maxSum = 0;
RankInit == [maxSum |-> Zero, maxId |-> 0]

\* a comparison bug: sum > maxSum
RankStepStrict(best, pos, sum) ==
    IF Geq(sum, best.maxSum) /\ sum # best.maxSum
    THEN [maxSum |-> sum, maxId |-> pos] ELSE best

\* an update bug: maxSum is never updated
RankStepKeepSum(best, pos, sum) ==
    IF Geq(sum, best.maxSum) THEN [maxSum |-> best.maxSum, maxId |-> pos] ELSE best

\* an index bug: maxId = i
RankStepIndex(best, pos, sum) ==
    IF Geq(sum, best.maxSum) THEN [maxSum |-> sum, maxId |-> pos - 1] ELSE best

\* if (sum >= maxSum) { maxSum = sum; maxId = i + 1; }  (i + 1 is position pos)
RankStep(best, pos, sum) ==
    IF Geq(sum, best.maxSum) THEN [maxSum |-> sum, maxId |-> pos] ELSE best

RECURSIVE RankLoop(_, _, _, _)
\* for (i = 1; i < nDocs; i++): positions 2..nDocs
RankLoop(rWords, table, pos, best) ==
    IF pos > Len(table) THEN best
    ELSE RankLoop(rWords, table, pos + 1,
                  RankStep(best, pos, SumCells(DOMAIN rWords, table[pos])))

getMostSimilarDocument(rWords, table) == RankLoop(rWords, table, 2, RankInit).maxId

\* ------------------------------------------------------------------ inputs
RECURSIVE SeqsUpTo(_, _)
\* the sequences over S of length at most n
SeqsUpTo(S, n) ==
    IF n = 0 THEN {<< >>}
    ELSE LET shorter == SeqsUpTo(S, n - 1)
         IN  shorter \cup {Append(s, x) : s \in {t \in shorter : Len(t) = n - 1}, x \in S}

TextAlphabet == {"a", "B", " ", ".", "'", "NUL"}
Texts == SeqsUpTo(TextAlphabet, MaxTextLen)

WordPool == {<<"a">>, <<"B">>}

RECURSIVE Sentence(_)
\* the words as a sentence: separated by ", " and closed by "."
Sentence(ws) ==
    IF ws = << >> THEN << >>
    ELSE IF Len(ws) = 1 THEN ws[1] \o <<".">>
    ELSE ws[1] \o <<",", " ">> \o Sentence(Tail(ws))

RECURSIVE TotalLen(_)
TotalLen(seqs) == IF seqs = << >> THEN 0 ELSE Len(Head(seqs)) + TotalLen(Tail(seqs))

RECURSIVE Sentences(_)
Sentences(wss) ==
    IF wss = << >> THEN << >> ELSE <<Sentence(Head(wss))>> \o Sentences(Tail(wss))

\* the generated corpora: 1..MaxDocs documents of at most MaxWords words each
\* and MaxCorpusWords words together
GeneratedCorpora ==
    {Sentences(wss) : wss \in {c \in SeqsUpTo(SeqsUpTo(WordPool, MaxWords), MaxDocs) :
                                  c # << >> /\ TotalLen(c) <= MaxCorpusWords}}

\* string Docs[] = {...} of main
MainDocs == <<
        <<"I","'","d",".",".","."," ","l","i","k","e",","," ","a","n","!",
          " ","a","p","p","l","e",".">>,
        <<"A","n"," ","a","p","p","l","e"," ","a"," ","d","a","y"," ","k",
          "e","e","p","s"," ","t","h","e"," ","d","o","c","t","o","r"," ",
          "a","w","a","y",".">>,
        <<"N","e","v","e","r"," ","c","o","m","p","a","r","e"," ","a","n",
          " ","a","p","p","l","e"," ","t","o"," ","a","n"," ","o","r","a",
          "n","g","e",".">>,
        <<"I"," ","p","r","e","f","e","r"," ","s","c","i","k","i","t","-",
          "l","e","a","r","n"," ","t","o"," ","o","r","a","n","g","e",".">> >>

\* the corpora of the driver: at least the reference document
Corpora == GeneratedCorpora \cup {MainDocs}

TableKeys == {<<"a">>, <<"b">>}
TableValues == {Zero, <<1, 2>>, NaN}
RefWordMaps == UNION {[K -> {1}] : K \in SUBSET TableKeys}
TableRows == UNION {[K -> TableValues] : K \in SUBSET TableKeys}
Tables == SeqsUpTo(TableRows, MaxDocs)

\* ----------------------------------------------------------- state machine
Idle ==
    /\ input = << >> /\ normalized = << >> /\ renormalized = << >>
    /\ mString = EmptyMap

NoPipeline ==
    /\ Docs = << >> /\ refWords = EmptyMap /\ tf = << >> /\ nOcc = EmptyMap
    /\ idf = EmptyMap /\ tfidf = << >> /\ out = << >>

\* main, before its first statement, on some corpus
Init ==
    /\ Idle
    /\ Docs \in Corpora
    /\ refWords = EmptyMap /\ tf = << >> /\ nOcc = EmptyMap /\ idf = EmptyMap
    /\ tfidf = << >> /\ out = << >>
    /\ pc = "main"

\* map<string,int> refWords = getUniqueWords(Docs[0]);
RefWords ==
    /\ pc = "main"
    /\ refWords' = getUniqueWords(Docs[1])
    /\ pc' = "tf"
    /\ UNCHANGED <<input, normalized, renormalized, mString, Docs, tf, nOcc, idf,
                   tfidf, out>>

\* tf = computeTF(refWords, Docs, nDocs);
ComputeTF ==
    /\ pc = "tf"
    /\ tf' = computeTF(refWords, Docs)
    /\ pc' = "idf"
    /\ UNCHANGED <<input, normalized, renormalized, mString, Docs, refWords, nOcc,
                   idf, tfidf, out>>

\* idf = computeIDF(refWords, Docs, nDocs);
ComputeIDF ==
    /\ pc = "idf"
    /\ LET loop == IDFLoop(refWords, Docs)
       IN  /\ nOcc' = [rWord \in DOMAIN refWords |-> loop[rWord].nOcc]
           /\ idf' = [rWord \in DOMAIN refWords |-> loop[rWord].count]
    /\ pc' = "tfidf"
    /\ UNCHANGED <<input, normalized, renormalized, mString, Docs, refWords, tf,
                   tfidf, out>>

\* tfidf = computeTFIDF(refWords, tf, idf);
ComputeTFIDF ==
    /\ pc = "tfidf"
    /\ tfidf' = computeTFIDF(refWords, tf, idf)
    /\ pc' = "rank"
    /\ UNCHANGED <<input, normalized, renormalized, mString, Docs, refWords, tf,
                   nOcc, idf, out>>

\* cout << getMostSimilarDocument(refWords, tfidf);
MostSimilar ==
    /\ pc = "rank"
    /\ out' = Append(out, getMostSimilarDocument(refWords, tfidf))
    /\ pc' = "done"
    /\ UNCHANGED <<input, normalized, renormalized, mString, Docs, refWords, tf,
                   nOcc, idf, tfidf>>

Next == RefWords \/ ComputeTF \/ ComputeIDF \/ ComputeTFIDF \/ MostSimilar

Spec == Init /\ [][Next]_vars

\* getMostSimilarDocument on any reference words and any table
InitRank ==
    /\ Idle
    /\ Docs = << >> /\ tf = << >> /\ nOcc = EmptyMap /\ idf = EmptyMap /\ out = << >>
    /\ refWords \in RefWordMaps
    /\ tfidf \in Tables
    /\ pc = "rank"

NextRank == MostSimilar

SpecRank == InitRank /\ [][NextRank]_vars

\* removePunctuation and getUniqueWords on any text
InitText ==
    /\ NoPipeline
    /\ input \in Texts
    /\ normalized = << >> /\ renormalized = << >> /\ mString = EmptyMap
    /\ pc = "text"

Normalize ==
    /\ pc = "text"
    /\ normalized' = removePunctuation(input)
    /\ pc' = "normalized"
    /\ UNCHANGED <<input, renormalized, mString, Docs, refWords, tf, nOcc, idf,
                   tfidf, out>>

Renormalize ==
    /\ pc = "normalized"
    /\ renormalized' = removePunctuation(normalized)
    /\ pc' = "renormalized"
    /\ UNCHANGED <<input, normalized, mString, Docs, refWords, tf, nOcc, idf,
                   tfidf, out>>

UniqueWords ==
    /\ pc = "renormalized"
    /\ mString' = getUniqueWords(input)
    /\ pc' = "counted"
    /\ UNCHANGED <<input, normalized, renormalized, Docs, refWords, tf, nOcc, idf,
                   tfidf, out>>

NextText == Normalize \/ Renormalize \/ UniqueWords

SpecText == InitText /\ [][NextText]_vars

\* =============================================================== properties
\* the positions of a text at which a word starts
WordStarts(s) == {i \in 1..Len(s) : s[i] # " " /\ (i = 1 \/ s[i-1] = " ")}

\* the word that starts at position i
WordAt(s, i) ==
    LET last == CHOOSE j \in i..Len(s) :
                    /\ \A k \in i..j : s[k] # " "
                    /\ (j = Len(s) \/ s[j+1] = " ")
    IN  SubSeq(s, i, last)

\* how often the word w occurs in the document text doc
Occurrences(doc, w) ==
    LET s == removePunctuation(doc)
    IN  Cardinality({i \in WordStarts(s) : WordAt(s, i) = w})

\* the number of words of the document text doc
WordCount(doc) == Cardinality(WordStarts(removePunctuation(doc)))

AllDocsHaveWords == \A i \in 1..Len(Docs) : WordCount(Docs[i]) >= 1

RECURSIVE AddAll(_, _)
AddAll(keys, row) ==
    IF keys = {} THEN Zero
    ELSE LET k == CHOOSE x \in keys : TRUE
         IN  Add(LookupD(row, k), AddAll(keys \ {k}, row))

\* the summed TF-IDF of each document, by position
Sums == [p \in 1..Len(tfidf) |-> AddAll(DOMAIN refWords, tfidf[p])]

Candidates == 2..Len(tfidf)

\* position p holds a maximal sum S[p] among the candidates
IsMaximal(S, p) ==
    /\ ~IsNaN(S[p])
    /\ \A k \in Candidates : IsNaN(S[k]) \/ Geq(S[p], S[k])

Printed == out[1]

\* C1 (as amended): on the compiled-in corpus the program prints 3.
C1_PrintsThree == (pc = "done" /\ Docs = MainDocs) => out = <<3>>

C1_Witness == pc = "done" /\ Docs = MainDocs /\ out = <<3>>

\* C1 (as claimed): on the compiled-in corpus the program prints 2.
C1_PrintsTwo == (pc = "done" /\ Docs = MainDocs) => out = <<2>>

\* C2: with at least 2 documents, none without words, the returned document's
\* summed TF-IDF is >= the summed TF-IDF of every candidate.
C2_ReturnsMaximum ==
    (pc = "done" /\ Len(Docs) >= 2 /\ AllDocsHaveWords) =>
        LET S == Sums
        IN  /\ Printed \in Candidates
            /\ \A k \in Candidates : Geq(S[Printed], S[k])

C2_Witness ==
    /\ pc = "done" /\ Len(Docs) = 3 /\ AllDocsHaveWords
    /\ Printed = 2
    /\ ~Geq(Sums[3], Sums[2])

\* C3: among candidates that tie on the maximal sum the one with the highest
\* position is returned; when every candidate's sum is 0 the last document is.
C3_LaterWinsTie ==
    pc = "done" =>
        LET S == Sums
        IN  /\ \A p \in Candidates, q \in Candidates :
                  (p < q /\ IsMaximal(S, p) /\ S[q] = S[p]) => Printed # p
            /\ \A p \in Candidates :
                  (IsMaximal(S, p) /\ \A q \in Candidates : q > p => S[q] # S[p])
                      => Printed = p
            /\ (Len(tfidf) >= 2 /\ \A p \in Candidates : IsZero(S[p]))
                  => Printed = Len(tfidf)

C3_Witness ==
    /\ pc = "done" /\ Len(Docs) = 3
    /\ Sums[2] = Sums[3] /\ ~IsZero(Sums[2]) /\ ~IsNaN(Sums[2])
    /\ Printed = 3

\* C4: with at least 2 documents, none without words, the value returned is
\* the winner's array index + 1, in 2..nDocs: never 1 and never 0.
C4_NeverReference ==
    (pc = "done" /\ Len(Docs) >= 2 /\ AllDocsHaveWords) =>
        /\ Printed \in 2..Len(Docs)
        /\ Printed # 1 /\ Printed # 0
        /\ LET S == Sums
               index == (CHOOSE p \in Candidates :
                            /\ IsMaximal(S, p)
                            /\ \A q \in Candidates : IsMaximal(S, q) => q <= p) - 1
           IN  Printed = index + 1

C4_Witness ==
    /\ pc = "done" /\ Len(Docs) = 3 /\ AllDocsHaveWords
    /\ IsZero(Sums[2]) /\ ~IsZero(Sums[3])
    /\ Printed = 3

\* computeTF has just returned
TFComputed == pc = "idf"

\* C5: for a document with at least one word, the TF of every reference word
\* is its number of occurrences over the document's word count, within [0, 1].
C5_TFIsFraction ==
    TFComputed =>
        /\ Len(tf) = Len(Docs)
        /\ \A i \in 1..Len(Docs) :
              /\ DOMAIN tf[i] = DOMAIN refWords
              /\ WordCount(Docs[i]) >= 1 =>
                    \A w \in DOMAIN refWords :
                        LET t == tf[i][w]
                        IN  /\ t[2] > 0
                            /\ t[1] * WordCount(Docs[i]) = Occurrences(Docs[i], w) * t[2]
                            /\ 0 <= t[1] /\ t[1] <= t[2]

C5_Witness ==
    /\ TFComputed
    /\ \E i \in 1..Len(Docs) : \E w \in DOMAIN refWords :
          /\ tf[i][w] = <<1, 2>>
          /\ \E v \in DOMAIN getUniqueWords(Docs[i]) : v \notin DOMAIN refWords

\* computeIDF has just returned
IDFComputed == pc = "tfidf"

\* C6: every reference word taken from document 0 has nOcc >= 1 at the
\* division nDocs/nOcc, so computeIDF does not divide by zero.
C6_NoDivisionByZero ==
    IDFComputed =>
        /\ DOMAIN nOcc = DOMAIN refWords
        /\ \A w \in DOMAIN refWords : nOcc[w] >= 1 /\ IsFinite(idf[w])

C6_Witness ==
    /\ IDFComputed /\ Len(Docs) >= 2
    /\ \E w \in DOMAIN refWords : nOcc[w] = 1

InEveryDoc(w) == \A i \in 1..Len(Docs) : Occurrences(Docs[i], w) >= 1

\* C7: a reference word that occurs in every document has an IDF of exactly 0.
C7_IDFZeroWhenEverywhere ==
    IDFComputed => \A w \in DOMAIN refWords : InEveryDoc(w) => idf[w] = Zero

C7_Witness ==
    /\ IDFComputed /\ Len(Docs) >= 2
    /\ \E w \in DOMAIN refWords : InEveryDoc(w) /\ idf[w] = Zero
    /\ \E w \in DOMAIN refWords : ~InEveryDoc(w) /\ idf[w] # Zero

\* C8: removePunctuation(removePunctuation(t)) = removePunctuation(t).
C8_NormalizeIdempotent ==
    pc \in {"renormalized", "counted"} => renormalized = normalized

C8_Witness ==
    /\ pc = "renormalized"
    /\ normalized # input
    /\ \E i \in 1..Len(input) : input[i] = "B"
    /\ \E i \in 1..Len(input) : input[i] = "."
    /\ renormalized = normalized

\* C9: the counts of getUniqueWords sum to the number of non-empty tokens of
\* the normalized text split on ' '; every count is >= 1 and no key is empty.
C9_CountsSumToTokens ==
    pc = "counted" =>
        /\ SumOver(DOMAIN mString, mString) = Cardinality(WordStarts(normalized))
        /\ \A w \in DOMAIN mString :
              /\ mString[w] >= 1
              /\ w # << >>
              /\ mString[w] = Cardinality({i \in WordStarts(normalized) :
                                              WordAt(normalized, i) = w})

C9_Witness ==
    /\ pc = "counted"
    /\ \E w \in DOMAIN mString : mString[w] = 2
    /\ Cardinality(WordStarts(normalized)) = 2

\* C10: on a table of one entry, or of none, getMostSimilarDocument returns 0,
\* which is none of the ids 2..nDocs of a winning document.
C10_NoCandidateReturnsZero ==
    pc = "done" =>
        /\ Len(tfidf) <= 1 => out = <<0>>
        /\ Printed # 0 => Printed \in 2..Len(tfidf)

C10_Witness ==
    /\ pc = "done" /\ Len(tfidf) = 1
    /\ \E w \in DOMAIN refWords : ~IsZero(LookupD(tfidf[1], w))
    /\ out = <<0>>

====
